---- MODULE Spec2Model ----
(***************************************************************************)
(* A model of the unit converter: the static catalog and convert_unit of   *)
(* utils.py, and the Streamlit session of app.py (session state, the       *)
(* callbacks and one pass of main per user interaction).                   *)
(*                                                                         *)
(* Python floats are IEEE-754 binary64.  TLC has only 32-bit integers, so  *)
(* a float is modelled here as a record [s, m, e] standing for             *)
(* (-1)^s * m * 2^e, with m a natural number of exactly Precision bits     *)
(* held as little-endian limbs of LimbBits bits (zero: m = << >>), and     *)
(* every operation rounds to nearest, ties to even, as the hardware does.  *)
(* Exponent overflow, subnormals, infinities and NaN are not modelled: the *)
(* values the model draws stay far inside the normal range.                *)
(***************************************************************************)
EXTENDS Integers, Sequences, FiniteSets, TLC

(***************************************************************************)
(* Natural numbers of any size: little-endian limbs, no leading zero limb. *)
(***************************************************************************)
LimbBits == 14
Base == 2^LimbBits
Precision == 53

RECURSIVE Strip(_)
Strip(a) ==
    IF a = << >> THEN << >>
    ELSE IF a[Len(a)] = 0 THEN Strip(SubSeq(a, 1, Len(a) - 1))
    ELSE a

RECURSIVE BFromInt(_)
BFromInt(n) == IF n = 0 THEN << >> ELSE <<n % Base>> \o BFromInt(n \div Base)

Limb(a, i) == IF i >= 1 /\ i <= Len(a) THEN a[i] ELSE 0

Max2(x, y) == IF x >= y THEN x ELSE y

RECURSIVE AddC(_, _, _, _)
AddC(a, b, i, c) ==
    IF i > Max2(Len(a), Len(b)) THEN (IF c = 0 THEN << >> ELSE <<c>>)
    ELSE LET t == Limb(a, i) + Limb(b, i) + c
         IN  <<t % Base>> \o AddC(a, b, i + 1, t \div Base)

BAdd(a, b) == AddC(a, b, 1, 0)

RECURSIVE SubB(_, _, _, _)
SubB(a, b, i, c) ==
    IF i > Len(a) THEN << >>
    ELSE LET t == Limb(a, i) - Limb(b, i) - c
         IN  IF t < 0 THEN <<t + Base>> \o SubB(a, b, i + 1, 1)
             ELSE <<t>> \o SubB(a, b, i + 1, 0)

\* a - b for a >= b
BSub(a, b) == Strip(SubB(a, b, 1, 0))

RECURSIVE CmpFrom(_, _, _)
CmpFrom(a, b, i) ==
    IF i = 0 THEN 0
    ELSE IF a[i] > b[i] THEN 1
    ELSE IF a[i] < b[i] THEN -1
    ELSE CmpFrom(a, b, i - 1)

\* -1, 0 or 1 as a < b, a = b or a > b
BCmp(a, b) ==
    IF Len(a) > Len(b) THEN 1
    ELSE IF Len(a) < Len(b) THEN -1
    ELSE CmpFrom(a, b, Len(a))

RECURSIVE MulLimb(_, _, _, _)
MulLimb(a, d, i, c) ==
    IF i > Len(a) THEN (IF c = 0 THEN << >> ELSE <<c>>)
    ELSE LET t == a[i] * d + c
         IN  <<t % Base>> \o MulLimb(a, d, i + 1, t \div Base)

RECURSIVE BMul(_, _)
BMul(a, b) ==
    IF a = << >> \/ b = << >> THEN << >>
    ELSE LET rest == BMul(a, Tail(b))
         IN  BAdd(Strip(MulLimb(a, Head(b), 1, 0)),
                  IF rest = << >> THEN << >> ELSE <<0>> \o rest)

\* a * 2^n
BShl(a, n) ==
    IF a = << >> THEN << >>
    ELSE LET q == n \div LimbBits
             r == n % LimbBits
             hi == 2^(LimbBits - r)
             sh == [i \in 1..(Len(a) + 1) |->
                      (Limb(a, i) % hi) * 2^r + (Limb(a, i - 1) \div hi)]
         IN  [i \in 1..q |-> 0] \o Strip(sh)

\* floor(a / 2^n)
BShr(a, n) ==
    LET q == n \div LimbBits
        r == n % LimbBits
        lo == 2^r
    IN  IF q >= Len(a) THEN << >>
        ELSE Strip([i \in 1..(Len(a) - q) |->
                      (a[i + q] \div lo) + (Limb(a, i + q + 1) % lo) * 2^(LimbBits - r)])

RECURSIVE IntBitLen(_)
IntBitLen(n) == IF n = 0 THEN 0 ELSE 1 + IntBitLen(n \div 2)

BitLen(a) ==
    IF a = << >> THEN 0 ELSE LimbBits * (Len(a) - 1) + IntBitLen(a[Len(a)])

\* bit i of a, bit 0 the lowest
Bit(a, i) == (Limb(a, (i \div LimbBits) + 1) \div 2^(i % LimbBits)) % 2

\* whether any of the bits 0..n-1 of a is set
AnyLow(a, n) ==
    \/ \E i \in 1..(n \div LimbBits) : Limb(a, i) # 0
    \/ Limb(a, (n \div LimbBits) + 1) % 2^(n % LimbBits) # 0

(***************************************************************************)
(* binary64 arithmetic, round to nearest, ties to even.                    *)
(***************************************************************************)
FZero(s) == [s |-> s, m |-> << >>, e |-> 0]

IsZero(x) == x.m = << >>

\* the mantissa after the rounding increment: a carry out of Precision bits
\* leaves a power of two
Carry(s, m, e) ==
    IF BitLen(m) > Precision THEN [s |-> s, m |-> BShr(m, 1), e |-> e + 1]
    ELSE [s |-> s, m |-> m, e |-> e]

\* n has r bits too many: round half to even on the r bits dropped
RoundBits(s, n, e, sticky, r) ==
    Carry(s,
          IF /\ Bit(n, r - 1) = 1
             /\ (sticky \/ AnyLow(n, r - 1) \/ Bit(n, r) = 1)
          THEN BAdd(BShr(n, r), <<1>>)
          ELSE BShr(n, r),
          e + r)

RoundLen(s, n, e, sticky, len) ==
    IF len <= Precision
    THEN [s |-> s, m |-> BShl(n, Precision - len), e |-> e - (Precision - len)]
    ELSE RoundBits(s, n, e, sticky, len - Precision)

\* (-1)^s * n * 2^e rounded to Precision bits; sticky says the exact value
\* lies strictly above n * 2^e (a division's remainder).
Round(s, n, e, sticky) ==
    IF n = << >> THEN FZero(s) ELSE RoundLen(s, n, e, sticky, BitLen(n))

FromInt(n) == Round(IF n < 0 THEN 1 ELSE 0, BFromInt(IF n < 0 THEN 0 - n ELSE n), 0, FALSE)

FNeg(x) == [x EXCEPT !.s = 1 - x.s]

\* the sum of (-1)^xs * a and (-1)^ys * b, both in units of 2^e; c = BCmp(a, b)
AddAligned(xs, a, ys, b, e, c) ==
    IF xs = ys THEN Round(xs, BAdd(a, b), e, FALSE)
    ELSE IF c = 0 THEN FZero(0)
    ELSE Round(IF c > 0 THEN xs ELSE ys,
               IF c > 0 THEN BSub(a, b) ELSE BSub(b, a), e, FALSE)

AddShifted(xs, a, ys, b, e) == AddAligned(xs, a, ys, b, e, BCmp(a, b))

AddAt(x, y, e) == AddShifted(x.s, BShl(x.m, x.e - e), y.s, BShl(y.m, y.e - e), e)

FAdd(x, y) ==
    IF IsZero(x) THEN (IF IsZero(y) THEN FZero(IF x.s = 1 /\ y.s = 1 THEN 1 ELSE 0) ELSE y)
    ELSE IF IsZero(y) THEN x
    ELSE AddAt(x, y, IF x.e <= y.e THEN x.e ELSE y.e)

FSub(x, y) == FAdd(x, FNeg(y))

FMul(x, y) ==
    IF IsZero(x) \/ IsZero(y) THEN FZero((x.s + y.s) % 2)
    ELSE Round((x.s + y.s) % 2, BMul(x.m, y.m), x.e + y.e, FALSE)

MulSmall(a, d) == Strip(MulLimb(a, d, 1, 0))

\* the largest digit q <= qh with q * d <= rem, and what is left of rem;
\* p = qh * d
RECURSIVE FixDigit(_, _, _, _)
FixDigit(rem, d, qh, p) ==
    IF BCmp(p, rem) > 0 THEN FixDigit(rem, d, qh - 1, MulSmall(d, qh - 1))
    ELSE <<qh, BSub(rem, p)>>

EstDigit(rem, d, est) == FixDigit(rem, d, est, MulSmall(d, est))

\* One step of long division in base Base: <<floor(rem / d), rem mod d>> for
\* rem < d * Base, where the top limb of d is at least Base / 2, so that the
\* estimate from the top limbs is at most 2 above the digit.
DivDigit(rem, d) ==
    EstDigit(rem, d,
             IF (Limb(rem, Len(d) + 1) * Base + Limb(rem, Len(d))) \div d[Len(d)] >= Base
             THEN Base - 1
             ELSE (Limb(rem, Len(d) + 1) * Base + Limb(rem, Len(d))) \div d[Len(d)])

\* the quotient q with one more limb dg[1] below it, and the new remainder
PushDigit(q, dg) ==
    <<IF q = << >> /\ dg[1] = 0 THEN << >> ELSE <<dg[1]>> \o q, dg[2]>>

\* k more quotient limbs: qr = <<quotient so far, remainder>>
RECURSIVE DivDigits(_, _, _)
DivDigits(qr, d, k) ==
    IF k = 0 THEN qr
    ELSE DivDigits(PushDigit(qr[1], DivDigit(IF qr[2] = << >> THEN << >> ELSE <<0>> \o qr[2], d)),
                   d, k - 1)

\* the limbs that hold a mantissa, and the shift that fills the top one
MantLimbs == (Precision + LimbBits - 1) \div LimbBits
NormShift == MantLimbs * LimbBits - Precision

RoundQuotient(s, qr, e) == Round(s, qr[1], e, qr[2] # << >>)

\* n / d * 2^e for mantissas n, d shifted to fill MantLimbs limbs
DivMant(s, n, d, e) ==
    RoundQuotient(s,
                  DivDigits(IF BCmp(n, d) >= 0 THEN <<(<<1>>), BSub(n, d)>> ELSE <<(<< >>), n>>,
                            d, MantLimbs),
                  e)

\* x / y for y # 0: MantLimbs limbs of quotient, at least Precision + 2 bits
FDiv(x, y) ==
    IF IsZero(x) THEN FZero((x.s + y.s) % 2)
    ELSE DivMant((x.s + y.s) % 2, BShl(x.m, NormShift), BShl(y.m, NormShift),
                 x.e - y.e - MantLimbs * LimbBits)

\* Python's ==: the two zeros are equal
FEq(x, y) == (IsZero(x) /\ IsZero(y)) \/ x = y

(***************************************************************************)
(* A decimal literal of the source, e.g. 1609.344 as                       *)
(* Literal(<<1,6,0,9>>, <<3,4,4>>): Python reads it as the double nearest  *)
(* to the decimal, which is the correctly rounded quotient of two integers *)
(* below 2^Precision.  Digits are read ChunkDigits at a time.              *)
(***************************************************************************)
ChunkDigits == 7

RECURSIVE IntOf(_)
IntOf(ds) == IF ds = << >> THEN 0 ELSE IntOf(SubSeq(ds, 1, Len(ds) - 1)) * 10 + ds[Len(ds)]

RECURSIVE Digits(_)
Digits(ds) ==
    IF Len(ds) <= ChunkDigits THEN BFromInt(IntOf(ds))
    ELSE BAdd(BMul(Digits(SubSeq(ds, 1, Len(ds) - ChunkDigits)), BFromInt(10^ChunkDigits)),
              BFromInt(IntOf(SubSeq(ds, Len(ds) - ChunkDigits + 1, Len(ds)))))

RECURSIVE Pow10(_)
Pow10(k) ==
    IF k <= ChunkDigits THEN BFromInt(10^k)
    ELSE BMul(Pow10(k - ChunkDigits), BFromInt(10^ChunkDigits))

Literal(int, frac) ==
    FDiv(Round(0, Digits(int \o frac), 0, FALSE), Round(0, Pow10(Len(frac)), 0, FALSE))

(***************************************************************************)
(* utils.py: the static catalog.  Only the unit lists of the categories    *)
(* are modelled; symbol and color are presentation.                        *)
(***************************************************************************)
CONVERSION_CATEGORIES ==
    [Length |-> [units |-> <<"meter", "kilometer", "centimeter", "millimeter", "mile", "yard", "foot", "inch">>],
     Mass |-> [units |-> <<"gram", "kilogram", "milligram", "pound", "ounce", "ton">>],
     Volume |-> [units |-> <<"liter", "milliliter", "cubic_meter", "gallon", "quart", "pint", "cup", "fluid_ounce">>],
     Temperature |-> [units |-> <<"kelvin", "celsius", "fahrenheit">>],
     Time |-> [units |-> <<"second", "minute", "hour", "day", "week", "month", "year">>],
     Speed |-> [units |-> <<"meter_per_second", "kilometer_per_hour", "mile_per_hour", "knot">>],
     Area |-> [units |-> <<"square_meter", "square_kilometer", "hectare", "acre", "square_foot", "square_inch">>],
     Data |-> [units |-> <<"bit", "byte", "kilobyte", "megabyte", "gigabyte", "terabyte">>],
     Energy |-> [units |-> <<"joule", "kilojoule", "calorie", "kilocalorie", "watt_hour", "kilowatt_hour">>],
     Pressure |-> [units |-> <<"pascal", "kilopascal", "bar", "atmosphere", "psi">>]]

\* Each factor is held as the source writes it, <<integer digits, fraction
\* digits>>; FactorValues reads each as Python does.
CONVERSION_FACTORS ==
    [  \* Length (base: meter)
     meter |-> <<<<1>>, <<0>>>>,
     kilometer |-> <<<<1, 0, 0, 0>>, <<0>>>>,
     centimeter |-> <<<<0>>, <<0, 1>>>>,
     millimeter |-> <<<<0>>, <<0, 0, 1>>>>,
     mile |-> <<<<1, 6, 0, 9>>, <<3, 4, 4>>>>,
     yard |-> <<<<0>>, <<9, 1, 4, 4>>>>,
     foot |-> <<<<0>>, <<3, 0, 4, 8>>>>,
     inch |-> <<<<0>>, <<0, 2, 5, 4>>>>,
     \* Mass (base: gram)
     gram |-> <<<<1>>, <<0>>>>,
     kilogram |-> <<<<1, 0, 0, 0>>, <<0>>>>,
     milligram |-> <<<<0>>, <<0, 0, 1>>>>,
     pound |-> <<<<4, 5, 3>>, <<5, 9, 2, 3, 7>>>>,
     ounce |-> <<<<2, 8>>, <<3, 4, 9, 5, 2, 3, 1, 2, 5>>>>,
     ton |-> <<<<1, 0, 0, 0, 0, 0, 0>>, <<0>>>>,
     \* Volume (base: liter)
     liter |-> <<<<1>>, <<0>>>>,
     milliliter |-> <<<<0>>, <<0, 0, 1>>>>,
     cubic_meter |-> <<<<1, 0, 0, 0>>, <<0>>>>,
     gallon |-> <<<<3>>, <<7, 8, 5, 4, 1, 1, 7, 8>>>>,
     quart |-> <<<<0>>, <<9, 4, 6, 3, 5, 2, 9, 4, 6>>>>,
     pint |-> <<<<0>>, <<4, 7, 3, 1, 7, 6, 4, 7, 3>>>>,
     cup |-> <<<<0>>, <<2, 3, 6, 5, 8, 8, 2, 3, 6, 5>>>>,
     fluid_ounce |-> <<<<0>>, <<0, 2, 9, 5, 7, 3, 5, 2, 9, 6, 8, 7, 5>>>>,
     \* Time (base: second)
     second |-> <<<<1>>, <<0>>>>,
     minute |-> <<<<6, 0>>, <<0>>>>,
     hour |-> <<<<3, 6, 0, 0>>, <<0>>>>,
     day |-> <<<<8, 6, 4, 0, 0>>, <<0>>>>,
     week |-> <<<<6, 0, 4, 8, 0, 0>>, <<0>>>>,
     month |-> <<<<2, 5, 9, 2, 0, 0, 0>>, <<0>>>>,
     year |-> <<<<3, 1, 5, 3, 6, 0, 0, 0>>, <<0>>>>,
     \* Speed (base: meter_per_second)
     meter_per_second |-> <<<<1>>, <<0>>>>,
     kilometer_per_hour |-> <<<<0>>, <<2, 7, 7, 7, 7, 8>>>>,
     mile_per_hour |-> <<<<0>>, <<4, 4, 7, 0, 4>>>>,
     knot |-> <<<<0>>, <<5, 1, 4, 4, 4, 4>>>>,
     \* Area (base: square_meter)
     square_meter |-> <<<<1>>, <<0>>>>,
     square_kilometer |-> <<<<1, 0, 0, 0, 0, 0, 0>>, <<0>>>>,
     hectare |-> <<<<1, 0, 0, 0, 0>>, <<0>>>>,
     acre |-> <<<<4, 0, 4, 6>>, <<8, 5, 6, 4, 2, 2, 4>>>>,
     square_foot |-> <<<<0>>, <<0, 9, 2, 9, 0, 3, 0, 4>>>>,
     square_inch |-> <<<<0>>, <<0, 0, 0, 6, 4, 5, 1, 6>>>>,
     \* Data (base: byte)
     bit |-> <<<<0>>, <<1, 2, 5>>>>,
     byte |-> <<<<1>>, <<0>>>>,
     kilobyte |-> <<<<1, 0, 2, 4>>, <<0>>>>,
     megabyte |-> <<<<1, 0, 4, 8, 5, 7, 6>>, <<0>>>>,
     gigabyte |-> <<<<1, 0, 7, 3, 7, 4, 1, 8, 2, 4>>, <<0>>>>,
     terabyte |-> <<<<1, 0, 9, 9, 5, 1, 1, 6, 2, 7, 7, 7, 6>>, <<0>>>>,
     \* Energy (base: joule)
     joule |-> <<<<1>>, <<0>>>>,
     kilojoule |-> <<<<1, 0, 0, 0>>, <<0>>>>,
     calorie |-> <<<<4>>, <<1, 8, 4>>>>,
     kilocalorie |-> <<<<4, 1, 8, 4>>, <<0>>>>,
     watt_hour |-> <<<<3, 6, 0, 0>>, <<0>>>>,
     kilowatt_hour |-> <<<<3, 6, 0, 0, 0, 0, 0>>, <<0>>>>,
     \* Pressure (base: pascal)
     pascal |-> <<<<1>>, <<0>>>>,
     kilopascal |-> <<<<1, 0, 0, 0>>, <<0>>>>,
     bar |-> <<<<1, 0, 0, 0, 0, 0>>, <<0>>>>,
     atmosphere |-> <<<<1, 0, 1, 3, 2, 5>>, <<0>>>>,
     psi |-> <<<<6, 8, 9, 4>>, <<7, 6>>>>]

FactorValues ==
    [unit \in DOMAIN CONVERSION_FACTORS |->
        Literal(CONVERSION_FACTORS[unit][1], CONVERSION_FACTORS[unit][2])]

\* CONVERSION_FACTORS[unit], the float
Factor(unit) == FactorValues[unit]

None == "None"

CATEGORY_BASE_UNITS ==
    [Length |-> "meter", Mass |-> "gram", Volume |-> "liter", Temperature |-> None,
     Time |-> "second", Speed |-> "meter_per_second", Area |-> "square_meter",
     Data |-> "byte", Energy |-> "joule", Pressure |-> "pascal"]

Range(seq) == {seq[i] : i \in 1..Len(seq)}

\* A faulty catalog, which lists meter in a second category: C7 tells the
\* two apart.
UnitsOfListedTwice(category) ==
    IF category = "Area" THEN CONVERSION_CATEGORIES[category].units \o <<"meter">>
    ELSE CONVERSION_CATEGORIES[category].units

UnitsOf(category) == CONVERSION_CATEGORIES[category].units

(***************************************************************************)
(* utils.py: convert_unit.  It always returns: the except clause turns any *)
(* exception (here the KeyError of a missing factor) into an st.error      *)
(* message and the return value 0.0.  The outcome is the record            *)
(* [kind, value, st_error]: kind is "return" or "raise", st_error the      *)
(* message shown, or NoError.                                              *)
(***************************************************************************)
NoError == << >>

TEMPERATURE_UNITS == {"celsius", "fahrenheit", "kelvin"}

K273_15 == Literal(<<2, 7, 3>>, <<1, 5>>)

\* A faulty ToKelvin, which scales fahrenheit by 9 / 5, the ratio of the way
\* back: C6 tells the two apart.
ToKelvinScaled(value, from_unit) ==
    IF from_unit = "celsius" THEN FAdd(value, K273_15)
    ELSE IF from_unit = "fahrenheit"
    THEN FAdd(FDiv(FMul(FSub(value, FromInt(32)), FromInt(9)), FromInt(5)), K273_15)
    ELSE value

ToKelvin(value, from_unit) ==
    IF from_unit = "celsius" THEN FAdd(value, K273_15)
    ELSE IF from_unit = "fahrenheit"
    THEN FAdd(FDiv(FMul(FSub(value, FromInt(32)), FromInt(5)), FromInt(9)), K273_15)
    ELSE value

FromKelvin(kelvin_value, to_unit) ==
    IF to_unit = "celsius" THEN FSub(kelvin_value, K273_15)
    ELSE IF to_unit = "fahrenheit"
    THEN FAdd(FDiv(FMul(FSub(kelvin_value, K273_15), FromInt(9)), FromInt(5)), FromInt(32))
    ELSE kelvin_value

\* A faulty TemperaturePath, taken when either unit is a temperature: C8
\* tells the two apart.
TemperaturePathEither(from_unit, to_unit) ==
    from_unit \in TEMPERATURE_UNITS \/ to_unit \in TEMPERATURE_UNITS

TemperaturePath(from_unit, to_unit) ==
    from_unit \in TEMPERATURE_UNITS /\ to_unit \in TEMPERATURE_UNITS

Returned(value) == [kind |-> "return", value |-> value, st_error |-> NoError]

Excepted(key) ==
    [kind |-> "return", value |-> FZero(0), st_error |-> <<"Conversion error", key>>]

\* A faulty convert_unit, which applies the two factors the wrong way round:
\* C5 tells the two apart.
convert_unit_inverted(value, from_unit, to_unit) ==
    IF TemperaturePath(from_unit, to_unit)
    THEN Returned(FromKelvin(ToKelvin(value, from_unit), to_unit))
    ELSE IF from_unit \notin DOMAIN CONVERSION_FACTORS THEN Excepted(from_unit)
    ELSE IF to_unit \notin DOMAIN CONVERSION_FACTORS THEN Excepted(to_unit)
    ELSE Returned(FDiv(FMul(value, Factor(to_unit)), Factor(from_unit)))

convert_unit(value, from_unit, to_unit) ==
    IF TemperaturePath(from_unit, to_unit)
    THEN Returned(FromKelvin(ToKelvin(value, from_unit), to_unit))
    ELSE IF from_unit \notin DOMAIN CONVERSION_FACTORS THEN Excepted(from_unit)
    ELSE IF to_unit \notin DOMAIN CONVERSION_FACTORS THEN Excepted(to_unit)
    ELSE Returned(FDiv(FMul(value, Factor(from_unit)), Factor(to_unit)))

(***************************************************************************)
(* app.py: the Streamlit session.                                          *)
(*                                                                         *)
(* current_category .. theme are the keys of st.session_state set at lines *)
(* 34-47; display_from_unit and display_to_unit are the values of the two  *)
(* keyed select boxes, and widget_args the options and index each was      *)
(* last created with.  errors are the st.error messages of the last        *)
(* handler.  clock is the wall clock read by time.strftime, in seconds:    *)
(* one interaction per second.  appended is a history variable of the      *)
(* model: every record appended since the last clear.                      *)
(*                                                                         *)
(* key_identity is the Streamlit build's rule for a keyed widget whose     *)
(* index argument changed between two runs of the script: FALSE, the       *)
(* arguments are part of the widget's identity, so it is a new widget      *)
(* showing its default (and a selection sent for the old one is dropped);  *)
(* TRUE, the key alone is the identity and the widget keeps its selection  *)
(* while that is still one of its options.                                 *)
(*                                                                         *)
(* call and ret are the argument and the outcome of a direct call of       *)
(* convert_unit, used by SpecConvert only.                                 *)
(***************************************************************************)
MaxClock == 3
MaxPick == 2

VARIABLES current_category, input_value, from_unit, to_unit, result,
          conversion_history, theme, display_from_unit, display_to_unit,
          widget_args, errors, clock, appended, key_identity, call, ret

sessionVars ==
    <<current_category, input_value, from_unit, to_unit, result,
      conversion_history, theme, display_from_unit, display_to_unit,
      widget_args, errors, clock, appended, key_identity>>

vars == <<sessionVars, call, ret>>

HISTORY_LIMIT == 10

Session ==
    [current_category |-> current_category, input_value |-> input_value,
     from_unit |-> from_unit, to_unit |-> to_unit, result |-> result,
     conversion_history |-> conversion_history, theme |-> theme,
     display_from_unit |-> display_from_unit, display_to_unit |-> display_to_unit,
     widget_args |-> widget_args, errors |-> errors, clock |-> clock,
     appended |-> appended, key_identity |-> key_identity]

SetSession(S) ==
    /\ current_category' = S.current_category
    /\ input_value' = S.input_value
    /\ from_unit' = S.from_unit
    /\ to_unit' = S.to_unit
    /\ result' = S.result
    /\ conversion_history' = S.conversion_history
    /\ theme' = S.theme
    /\ display_from_unit' = S.display_from_unit
    /\ display_to_unit' = S.display_to_unit
    /\ widget_args' = S.widget_args
    /\ errors' = S.errors
    /\ clock' = S.clock
    /\ appended' = S.appended
    /\ key_identity' = S.key_identity

\* A faulty KeepLast, which keeps the first records: C1 tells the two apart.
KeepFirst(history) ==
    IF Len(history) > HISTORY_LIMIT THEN SubSeq(history, 1, HISTORY_LIMIT) ELSE history

\* st.session_state.conversion_history[-10:] when longer than 10
KeepLast(history) ==
    IF Len(history) > HISTORY_LIMIT
    THEN SubSeq(history, Len(history) - HISTORY_LIMIT + 1, Len(history))
    ELSE history

ConversionRecord(S, value, outcome) ==
    [timestamp |-> S.clock, category |-> S.current_category, from_value |-> value,
     from_unit |-> S.from_unit, to_value |-> outcome.value, to_unit |-> S.to_unit]

\* Lines 66-80: the result is stored, the record appended, the history cut.
StoreResult(S, value, outcome) ==
    [S EXCEPT !.result = outcome.value,
              !.conversion_history = KeepLast(Append(@, ConversionRecord(S, value, outcome))),
              !.appended = Append(@, ConversionRecord(S, value, outcome)),
              !.errors = IF outcome.st_error = NoError THEN @
                         ELSE Append(@, outcome.st_error)]

\* float() of the number input's float cannot fail and convert_unit never
\* raises, so none of the three except clauses is entered.
update_result(S) ==
    StoreResult(S, S.input_value, convert_unit(S.input_value, S.from_unit, S.to_unit))

\* A faulty on_category_change, which keeps the units of the category left:
\* C9 tells the two apart.
on_category_change_keeping_units(S) == update_result(S)

on_category_change(S) ==
    LET units == UnitsOf(S.current_category)
    IN  update_result([S EXCEPT !.from_unit = units[1],
                                !.to_unit = IF Len(units) > 1 THEN units[2] ELSE units[1]])

\* A faulty swap_units, which does not convert again: C10 tells the two
\* apart.
swap_units_without_update(S) ==
    [S EXCEPT !.from_unit = S.to_unit, !.to_unit = S.from_unit]

swap_units(S) ==
    update_result([S EXCEPT !.from_unit = S.to_unit, !.to_unit = S.from_unit])

toggle_theme(S) ==
    [S EXCEPT !.theme = IF S.theme = "light" THEN "dark" ELSE "light"]

\* unit.replace('_', ' ').title().  Strings are atomic here, so the display
\* name is the unit under a tag: like the code's on the catalog's lowercase
\* identifiers, it is one-to-one and never equal to the identifier.
get_display_name(unit) == [display |-> unit]

NoPick == [display |-> None]

NoArgs == [options |-> << >>, index |-> 0]

\* list.index: the first position of x (positions count from 1 here)
IndexOf(seq, x) == CHOOSE i \in 1..Len(seq) : seq[i] = x /\ \A j \in 1..(i - 1) : seq[j] # x

\* What st.selectbox(label, options, index=index, key=...) returns in a run
\* of the script: pick is the selection the browser sent with this run, or
\* NoPick; old_value and old_args are the widget of the previous run.
Selectbox(keyed, old_value, old_args, options, index, pick) ==
    IF keyed
    THEN IF pick # NoPick THEN pick
         ELSE IF old_value \in Range(options) THEN old_value
         ELSE options[index]
    ELSE IF old_args = [options |-> options, index |-> index]
         THEN (IF pick # NoPick THEN pick ELSE old_value)
         ELSE options[index]

DisplayUnits(units) == [i \in 1..Len(units) |-> get_display_name(units[i])]

\* main, lines 195-210: the From select box
FromUnitSelection(S, pick) ==
    LET units == UnitsOf(S.current_category)
        display_units == DisplayUnits(units)
        from_unit_index == IF S.from_unit \in Range(units) THEN IndexOf(units, S.from_unit) ELSE 1
        selected_from_unit == Selectbox(S.key_identity, S.display_from_unit,
                                        S.widget_args.display_from_unit,
                                        display_units, from_unit_index, pick)
        selected_from_unit_index == IndexOf(display_units, selected_from_unit)
        S1 == [S EXCEPT !.display_from_unit = selected_from_unit,
                        !.widget_args.display_from_unit =
                            [options |-> display_units, index |-> from_unit_index]]
    IN  IF units[selected_from_unit_index] # S1.from_unit
        THEN update_result([S1 EXCEPT !.from_unit = units[selected_from_unit_index]])
        ELSE S1

\* main, lines 223-236: the To select box
ToUnitSelection(S, pick) ==
    LET units == UnitsOf(S.current_category)
        display_units == DisplayUnits(units)
        to_unit_index == IF S.to_unit \in Range(units) THEN IndexOf(units, S.to_unit) ELSE 2
        selected_to_unit == Selectbox(S.key_identity, S.display_to_unit,
                                      S.widget_args.display_to_unit,
                                      display_units, to_unit_index, pick)
        selected_to_unit_index == IndexOf(display_units, selected_to_unit)
        S1 == [S EXCEPT !.display_to_unit = selected_to_unit,
                        !.widget_args.display_to_unit =
                            [options |-> display_units, index |-> to_unit_index]]
    IN  IF units[selected_to_unit_index] # S1.to_unit
        THEN update_result([S1 EXCEPT !.to_unit = units[selected_to_unit_index]])
        ELSE S1

\* main, line 265: the conversion factor shown under "Conversion Details"
ShowErrors(S, outcome) ==
    IF outcome.st_error = NoError THEN S
    ELSE [S EXCEPT !.errors = Append(@, outcome.st_error)]

ConversionDetails(S) == ShowErrors(S, convert_unit(FromInt(1), S.from_unit, S.to_unit))

NoEvent == [kind |-> "none"]

\* main, lines 128-153: the category menu
CategoryMenu(S, ev) ==
    IF ev.kind = "category" /\ ev.arg # S.current_category
    THEN on_category_change([S EXCEPT !.current_category = ev.arg])
    ELSE S

\* main, lines 161-162: the theme button
ThemeButton(S, ev) == IF ev.kind = "theme" THEN toggle_theme(S) ELSE S

\* One run of main under the event the browser sent: the sidebar (category
\* menu, theme button), the two select boxes, the details.
MainPass(S, ev) ==
    ConversionDetails(
        ToUnitSelection(
            FromUnitSelection(ThemeButton(CategoryMenu(S, ev), ev),
                              IF ev.kind = "from" THEN ev.arg ELSE NoPick),
            IF ev.kind = "to" THEN ev.arg ELSE NoPick))

\* main, lines 270 and 295-297: the Clear History button exists while the
\* history is not empty; st.rerun() runs the script again from the top.
RECURSIVE RunScript(_, _)
ClearHistoryButton(S, ev) ==
    IF S.conversion_history # << >> /\ ev.kind = "clear"
    THEN RunScript([S EXCEPT !.conversion_history = << >>, !.appended = << >>,
                             !.errors = << >>], NoEvent)
    ELSE S

RunScript(S, ev) == ClearHistoryButton(MainPass(S, ev), ev)

\* The widget's callback, if it has one: it runs before the script.
Callback(S, ev) ==
    IF ev.kind = "swap" THEN swap_units(S)
    ELSE IF ev.kind = "value" THEN update_result([S EXCEPT !.input_value = ev.arg])
    ELSE S

\* One user interaction: the callback, then the script.
HandleEvent(ev) ==
    /\ SetSession(RunScript(Callback([Session EXCEPT !.errors = << >>, !.clock = clock + 1],
                                     ev), ev))
    /\ UNCHANGED <<call, ret>>

\* Lines 34-49, then the first run of the script.
InitialSession(keyed) ==
    MainPass([current_category |-> "Length", input_value |-> FromInt(1),
              from_unit |-> "meter", to_unit |-> "kilometer",
              result |-> Literal(<<0>>, <<0, 0, 1>>),
              conversion_history |-> << >>, theme |-> "light",
              display_from_unit |-> NoPick, display_to_unit |-> NoPick,
              widget_args |-> [display_from_unit |-> NoArgs, display_to_unit |-> NoArgs],
              errors |-> << >>, clock |-> 0, appended |-> << >>,
              key_identity |-> keyed],
             NoEvent)

NoCall == [kind |-> "none"]
NoRet == [kind |-> "none"]

InitSessionVars(S) ==
    /\ current_category = S.current_category
    /\ input_value = S.input_value
    /\ from_unit = S.from_unit
    /\ to_unit = S.to_unit
    /\ result = S.result
    /\ conversion_history = S.conversion_history
    /\ theme = S.theme
    /\ display_from_unit = S.display_from_unit
    /\ display_to_unit = S.display_to_unit
    /\ widget_args = S.widget_args
    /\ errors = S.errors
    /\ clock = S.clock
    /\ appended = S.appended
    /\ key_identity = S.key_identity

Init ==
    /\ \E keyed \in BOOLEAN : InitSessionVars(InitialSession(keyed))
    /\ call = NoCall
    /\ ret = NoRet

(***************************************************************************)
(* The user's interactions.  The values typed and the units picked are     *)
(* drawn from small sets; MaxClock bounds the length of a session.         *)
(***************************************************************************)
SessionValues == {FromInt(1), Literal(<<0>>, <<1>>)}

\* the first MaxPick units of the category
PickUnits(category) ==
    {UnitsOf(category)[i] : i \in 1..(IF Len(UnitsOf(category)) < MaxPick
                                       THEN Len(UnitsOf(category)) ELSE MaxPick)}

CategoryChange ==
    /\ clock < MaxClock
    /\ \E c \in DOMAIN CONVERSION_CATEGORIES \ {current_category} :
           HandleEvent([kind |-> "category", arg |-> c])

SelectFromUnit ==
    /\ clock < MaxClock
    /\ \E u \in PickUnits(current_category) :
           /\ get_display_name(u) # display_from_unit
           /\ HandleEvent([kind |-> "from", arg |-> get_display_name(u)])

SelectToUnit ==
    /\ clock < MaxClock
    /\ \E u \in PickUnits(current_category) :
           /\ get_display_name(u) # display_to_unit
           /\ HandleEvent([kind |-> "to", arg |-> get_display_name(u)])

SwapUnits ==
    /\ clock < MaxClock
    /\ HandleEvent([kind |-> "swap"])

ValueChange ==
    /\ clock < MaxClock
    /\ \E v \in SessionValues \ {input_value} : HandleEvent([kind |-> "value", arg |-> v])

ToggleTheme ==
    /\ clock < MaxClock
    /\ HandleEvent([kind |-> "theme"])

ClearHistory ==
    /\ clock < MaxClock
    /\ conversion_history # << >>
    /\ HandleEvent([kind |-> "clear"])

Next ==
    \/ CategoryChange
    \/ SelectFromUnit
    \/ SelectToUnit
    \/ SwapUnits
    \/ ValueChange
    \/ ToggleTheme
    \/ ClearHistory

Spec == Init /\ [][Next]_vars

(***************************************************************************)
(* convert_unit alone: one call on arguments drawn from ConvertValues and  *)
(* ConvertUnits (the catalog's units and one unit that is in no table).    *)
(***************************************************************************)
ConvertValues ==
    {FromInt(0), FromInt(1), FromInt(100), FromInt(1024), Literal(<<0>>, <<1>>)}

AllUnits == UNION {Range(UnitsOf(c)) : c \in DOMAIN CONVERSION_CATEGORIES}

ConvertUnits == AllUnits \cup {"furlong"}

InitConvert ==
    /\ InitSessionVars(InitialSession(FALSE))
    /\ call \in [kind : {"call"}, value : ConvertValues,
                 from_unit : ConvertUnits, to_unit : ConvertUnits]
    /\ ret = NoRet

CallConvertUnit ==
    /\ ret = NoRet
    /\ ret' = convert_unit(call.value, call.from_unit, call.to_unit)
    /\ UNCHANGED <<sessionVars, call>>

SpecConvert == InitConvert /\ [][CallConvertUnit]_vars

(***************************************************************************)
(* The history over a long session: MaxHistoryClock interactions, each     *)
(* the Swap button, which appends, or Clear History.                       *)
(***************************************************************************)
MaxHistoryClock == 15

HistorySwapUnits ==
    /\ clock < MaxHistoryClock
    /\ HandleEvent([kind |-> "swap"])

HistoryClear ==
    /\ clock < MaxHistoryClock
    /\ conversion_history # << >>
    /\ HandleEvent([kind |-> "clear"])

NextHistory ==
    \/ HistorySwapUnits
    \/ HistoryClear

SpecHistory == Init /\ [][NextHistory]_vars

(***************************************************************************)
(* update_result alone: one call on a session whose units and value are    *)
(* drawn from UpdateUnits (units of three categories and one unit that is  *)
(* in no table) and SessionValues, whatever put them there.                *)
(***************************************************************************)
UpdateUnits == {"meter", "kilometer", "gram", "celsius", "kelvin", "furlong"}

InitUpdate ==
    /\ \E f \in UpdateUnits, t \in UpdateUnits, v \in SessionValues :
           InitSessionVars([InitialSession(FALSE) EXCEPT !.from_unit = f, !.to_unit = t,
                                                         !.input_value = v])
    /\ call = NoCall
    /\ ret = NoRet

CallUpdateResult ==
    /\ clock = 0
    /\ SetSession(update_result([Session EXCEPT !.errors = << >>, !.clock = clock + 1]))
    /\ UNCHANGED <<call, ret>>

SpecUpdate == InitUpdate /\ [][CallUpdateResult]_vars

(***************************************************************************)
(* The properties checked.                                                 *)
(***************************************************************************)

\* C1: the history never holds more than 10 records, and it is the last
\* min(n, 10) of the n records appended since the last clear (or the start),
\* in their order: with 15 appended it is records 6..15, and after a clear
\* (nothing appended since) it is empty.
C1_HistoryKeepsLastTen ==
    LET n == Len(appended)
        kept == IF n < 10 THEN n ELSE 10
    IN  /\ Len(conversion_history) <= 10
        /\ conversion_history = SubSeq(appended, n - kept + 1, n)
        /\ (n = 15 => conversion_history = SubSeq(appended, 6, 15))
        /\ (n = 0 => conversion_history = << >>)

\* 15 different records were appended and the log is the last 10 of them
C1_FifteenAppended ==
    /\ Len(appended) = 15
    /\ Cardinality(Range(appended)) = 15
    /\ Len(conversion_history) = 10
    /\ conversion_history[1] = appended[6]
    /\ conversion_history[10] = appended[15]

\* C2: a call of convert_unit on a pair that takes the factor path (not both
\* units among celsius, fahrenheit, kelvin) with a unit that has no factor
\* ends in a typed failure, never in a returned number.
C2_UnknownUnitFails ==
    (/\ ret # NoRet
     /\ ~(call.from_unit \in {"celsius", "fahrenheit", "kelvin"}
          /\ call.to_unit \in {"celsius", "fahrenheit", "kelvin"})
     /\ (call.from_unit \notin DOMAIN CONVERSION_FACTORS
          \/ call.to_unit \notin DOMAIN CONVERSION_FACTORS))
    => ret.kind = "raise"

\* C3: update_result, when the conversion succeeds, appends exactly one
\* record holding the category, the input value, the two units and the
\* computed result, which is also the stored result; when the conversion
\* fails (a factor-path pair with a unit that has no factor) it leaves the
\* history and the stored result unchanged.
C3_UpdateResultRecords ==
    [][LET temperature == {"celsius", "fahrenheit", "kelvin"}
           fails == /\ ~(from_unit \in temperature /\ to_unit \in temperature)
                    /\ (from_unit \notin DOMAIN CONVERSION_FACTORS
                         \/ to_unit \notin DOMAIN CONVERSION_FACTORS)
           n == Len(conversion_history)
       IN  clock' = clock + 1 =>
              IF fails
              THEN conversion_history' = conversion_history /\ result' = result
              ELSE /\ Len(conversion_history') = n + 1
                   /\ SubSeq(conversion_history', 1, n) = conversion_history
                   /\ conversion_history'[n + 1].category = current_category
                   /\ conversion_history'[n + 1].from_value = input_value
                   /\ conversion_history'[n + 1].from_unit = from_unit
                   /\ conversion_history'[n + 1].to_unit = to_unit
                   /\ conversion_history'[n + 1].to_value = result'
                   /\ result' = convert_unit(input_value, from_unit, to_unit).value]_vars

\* C4: convert_unit(x, u, u) returns x, for every unit u of the catalog, the
\* three temperature units included.
C4_SameUnitIsIdentity ==
    (ret # NoRet /\ call.from_unit = call.to_unit /\ call.from_unit \in AllUnits)
    => (ret.kind = "return" /\ ret.st_error = NoError /\ FEq(ret.value, call.value))

\* C5: for units u, v that both have a factor, convert_unit(x, u, v) is
\* (x * factor(u)) / factor(v); so convert_unit(1.0, u, base unit of u's
\* category) is factor(u), the base units being meter, gram, liter, second,
\* meter_per_second, square_meter, byte, joule and pascal, each of factor
\* 1.0; and 1 kilometer is 1000 meter, 1024 byte 1 kilobyte, 1 hour 3600
\* second.
C5_FactorPath ==
    LET linear == DOMAIN CONVERSION_CATEGORIES \ {"Temperature"}
        is(value, from, to) ==
            call = [kind |-> "call", value |-> value, from_unit |-> from, to_unit |-> to]
    IN  /\ {CATEGORY_BASE_UNITS[c] : c \in linear} =
               {"meter", "gram", "liter", "second", "meter_per_second", "square_meter",
                "byte", "joule", "pascal"}
        /\ \A c \in linear : Factor(CATEGORY_BASE_UNITS[c]) = FromInt(1)
        /\ ret # NoRet =>
              /\ (call.from_unit \in DOMAIN CONVERSION_FACTORS
                   /\ call.to_unit \in DOMAIN CONVERSION_FACTORS)
                  => /\ ret.kind = "return"
                     /\ ret.st_error = NoError
                     /\ ret.value = FDiv(FMul(call.value, Factor(call.from_unit)),
                                         Factor(call.to_unit))
              /\ \A c \in linear : \A i \in 1..Len(CONVERSION_CATEGORIES[c].units) :
                     is(FromInt(1), CONVERSION_CATEGORIES[c].units[i], CATEGORY_BASE_UNITS[c])
                     => ret.value = Factor(CONVERSION_CATEGORIES[c].units[i])
              /\ (is(FromInt(1), "kilometer", "meter") => ret.value = FromInt(1000))
              /\ (is(FromInt(1024), "byte", "kilobyte") => ret.value = FromInt(1))
              /\ (is(FromInt(1), "hour", "second") => ret.value = FromInt(3600))

\* 1024 byte were converted to 1 kilobyte
C5_KilobyteConverted ==
    /\ call = [kind |-> "call", value |-> FromInt(1024), from_unit |-> "byte",
               to_unit |-> "kilobyte"]
    /\ ret = Returned(FromInt(1))

\* C6: for two temperature units convert_unit first brings the value to
\* kelvin (celsius: + 273.15; fahrenheit: (value - 32) * 5 / 9 + 273.15;
\* kelvin: unchanged), then to the target (celsius: - 273.15; fahrenheit:
\* (kelvin - 273.15) * 9 / 5 + 32; kelvin: unchanged); so 0 celsius is 32
\* fahrenheit, 100 celsius is 212 fahrenheit, and 0 celsius is 273.15 kelvin.
C6_TemperaturePath ==
    LET temperature == {"celsius", "fahrenheit", "kelvin"}
        offset == Literal(<<2, 7, 3>>, <<1, 5>>)
        normalize(value, unit) ==
            CASE unit = "celsius" -> FAdd(value, offset)
              [] unit = "fahrenheit" ->
                    FAdd(FDiv(FMul(FSub(value, FromInt(32)), FromInt(5)), FromInt(9)), offset)
              [] unit = "kelvin" -> value
        denormalize(kelvin, unit) ==
            CASE unit = "celsius" -> FSub(kelvin, offset)
              [] unit = "fahrenheit" ->
                    FAdd(FDiv(FMul(FSub(kelvin, offset), FromInt(9)), FromInt(5)), FromInt(32))
              [] unit = "kelvin" -> kelvin
        is(value, from, to) ==
            call = [kind |-> "call", value |-> value, from_unit |-> from, to_unit |-> to]
    IN  ret # NoRet =>
          /\ (call.from_unit \in temperature /\ call.to_unit \in temperature)
              => /\ ret.kind = "return"
                 /\ ret.st_error = NoError
                 /\ ret.value = denormalize(normalize(call.value, call.from_unit),
                                            call.to_unit)
          /\ (is(FromInt(0), "celsius", "fahrenheit") => ret.value = FromInt(32))
          /\ (is(FromInt(100), "celsius", "fahrenheit") => ret.value = FromInt(212))
          /\ (is(FromInt(0), "celsius", "kelvin") => ret.value = offset)

\* 100 celsius were converted to 212 fahrenheit
C6_BoilingPointConverted ==
    /\ call = [kind |-> "call", value |-> FromInt(100), from_unit |-> "celsius",
               to_unit |-> "fahrenheit"]
    /\ ret = Returned(FromInt(212))

\* C7: the catalog is well formed: no unit is listed twice, in one category
\* or in two, so each listed unit a call names is in exactly one category;
\* the units with a factor are exactly the listed units other than celsius,
\* fahrenheit and kelvin; and every factor is positive.
C7_CatalogWellFormed ==
    LET categories == DOMAIN CONVERSION_CATEGORIES
        listed == UNION {Range(UnitsOf(c)) : c \in categories}
        temperature == {"celsius", "fahrenheit", "kelvin"}
    IN  /\ \A u \in {call.from_unit, call.to_unit} \cap listed :
               Cardinality({c \in categories : u \in Range(UnitsOf(c))}) = 1
        /\ \A c \in categories : Cardinality(Range(UnitsOf(c))) = Len(UnitsOf(c))
        /\ \A c, d \in categories :
               c # d => Range(UnitsOf(c)) \cap Range(UnitsOf(d)) = {}
        /\ temperature \subseteq listed
        /\ DOMAIN CONVERSION_FACTORS = listed \ temperature
        /\ \A u \in DOMAIN CONVERSION_FACTORS : Factor(u).s = 0 /\ ~IsZero(Factor(u))

\* a listed unit without a factor was converted to a unit with one
C7_TemperatureUnitWithoutFactor ==
    /\ ret # NoRet
    /\ call.from_unit = "kelvin"
    /\ call.from_unit \in Range(UnitsOf("Temperature"))
    /\ call.from_unit \notin DOMAIN CONVERSION_FACTORS
    /\ call.to_unit = "meter"
    /\ call.to_unit \in Range(UnitsOf("Length"))
    /\ call.to_unit \in DOMAIN CONVERSION_FACTORS

\* C8: the pair of units alone chooses the path.  Both units among celsius,
\* fahrenheit, kelvin: the temperature path.  Any other pair: the factor
\* table, so two units with factors, of one category or of two, give
\* value * factor(from) / factor(to), and a pair with exactly one
\* temperature unit ends at the lookup of that unit's missing factor.
C8_PathByUnitPair ==
    LET temperature == {"celsius", "fahrenheit", "kelvin"}
        from == call.from_unit
        to == call.to_unit
    IN  ret # NoRet =>
          IF from \in temperature /\ to \in temperature
          THEN ret = Returned(FromKelvin(ToKelvin(call.value, from), to))
          ELSE IF from \in DOMAIN CONVERSION_FACTORS /\ to \in DOMAIN CONVERSION_FACTORS
          THEN ret = Returned(FDiv(FMul(call.value, Factor(from)), Factor(to)))
          ELSE /\ ret.st_error # NoError
               /\ (from \in temperature /\ to \in DOMAIN CONVERSION_FACTORS)
                   => ret.st_error = <<"Conversion error", from>>
               /\ (to \in temperature /\ from \in DOMAIN CONVERSION_FACTORS)
                   => ret.st_error = <<"Conversion error", to>>

\* 1 meter was converted to 1 gram, across two categories
C8_MeterToGram ==
    /\ call = [kind |-> "call", value |-> FromInt(1), from_unit |-> "meter",
               to_unit |-> "gram"]
    /\ ret = Returned(FromInt(1))

\* C9: after every handler from_unit and to_unit are units of
\* current_category, and every call of update_result (each appended a
\* record) was on two units of the category current at the call; no
\* handler showed a conversion error.
C9_UnitsOfCurrentCategory ==
    /\ from_unit \in Range(CONVERSION_CATEGORIES[current_category].units)
    /\ to_unit \in Range(CONVERSION_CATEGORIES[current_category].units)
    /\ \A i \in 1..Len(appended) :
           /\ appended[i].from_unit \in Range(CONVERSION_CATEGORIES[appended[i].category].units)
           /\ appended[i].to_unit \in Range(CONVERSION_CATEGORIES[appended[i].category].units)
    /\ errors = << >>

\* the category was changed to Temperature and the units were swapped
C9_TemperatureSwapped ==
    /\ current_category = "Temperature"
    /\ from_unit = "celsius"
    /\ to_unit = "kelvin"
    /\ Len(appended) = 2

\* C10: in every state the stored result is convert_unit(input_value,
\* from_unit, to_unit), and the last record of a history that is not empty
\* holds it as to_value; a step that toggles the theme or clears the
\* history leaves the stored result unchanged.
C10_ResultIsConversion ==
    /\ [](/\ result = convert_unit(input_value, from_unit, to_unit).value
          /\ conversion_history # << >>
              => conversion_history[Len(conversion_history)].to_value = result)
    /\ [][(theme' # theme \/ (conversion_history # << >> /\ conversion_history' = << >>))
            => result' = result]_vars

\* the units were swapped, then the theme toggled: 1 kilometer is 1000 meter
C10_SwappedThenToggled ==
    /\ theme = "dark"
    /\ from_unit = "kilometer"
    /\ to_unit = "meter"
    /\ result = FromInt(1000)
    /\ conversion_history # << >>

\* C11: a press of Swap, the callback swap_units and then the run of main,
\* leaves from_unit equal to the to_unit before it and to_unit equal to the
\* from_unit before it, leaves current_category, input_value and theme
\* unchanged, and appends exactly one record, the one of the swapped pair;
\* and from every state two presses of Swap give back from_unit and to_unit.
C11_SwapSwapsUnits ==
    /\ [][SwapUnits =>
            LET n == Len(appended)
            IN  /\ from_unit' = to_unit
                /\ to_unit' = from_unit
                /\ current_category' = current_category
                /\ input_value' = input_value
                /\ theme' = theme
                /\ Len(appended') = n + 1
                /\ SubSeq(appended', 1, n) = appended
                /\ appended'[n + 1].category = current_category
                /\ appended'[n + 1].from_value = input_value
                /\ appended'[n + 1].from_unit = to_unit
                /\ appended'[n + 1].to_unit = from_unit]_vars
    /\ [](LET press(S) ==
                  RunScript(swap_units([S EXCEPT !.errors = << >>, !.clock = S.clock + 1]),
                            [kind |-> "swap"])
          IN  /\ press(press(Session)).from_unit = from_unit
              /\ press(press(Session)).to_unit = to_unit)
====
